---------------------------- MODULE Spec2Model ----------------------------
(***************************************************************************)
(* A model of cropper.py (HD-CelebA-Cropper): the two entry points         *)
(* align_crop_5pts_opencv and align_crop_5pts_skimage, the module-level    *)
(* default mean shape they share, and a caller that owns a source-landmark *)
(* array and a mean-shape array and passes them by reference.              *)
(*                                                                         *)
(* Numbers.  Pixel quantities (image extents, crop_size, pads, move, the   *)
(* source landmarks) are integers.  Mean-shape coordinates are held in     *)
(* units of 5e-9 (MeanUnit units make 1.0), so the eight-decimal constants *)
(* of the default mean shape are exact and so is halving a sum of two of   *)
(* them.  face_factor and landmark_factor are held in twentieths (0.65 is  *)
(* 13, 0.35 is 7).  A target-landmark coordinate is an exact fixed-point   *)
(* number of three limbs <<l2, l1, l0>> in base Limb, worth                *)
(* (l2*Limb^2 + l1*Limb + l0) / (400 * MeanUnit) pixels.  The arithmetic   *)
(* is therefore exact where the code's is float64.                         *)
(*                                                                         *)
(* Collaborators.  numpy.pad, the transform estimators and the resamplers  *)
(* are outside the repository.  An image is an opaque buffer named by its  *)
(* shape, a transform by the estimator's arguments, a crop by the          *)
(* resampler's arguments.                                                  *)
(***************************************************************************)
EXTENDS Integers, Sequences, FiniteSets, TLC

\* Bounds of the model.
MaxDim == 3
MaxCrop == 3
MaxCalls == 2

\* ---------------------------------------------------------------- numbers

\* Mean-shape units per 1.0.
MeanUnit == 200000000

\* Base of the limbs of a target-landmark coordinate.
Limb == 10000

\* Twentieths per 1.0 of face_factor and landmark_factor.
FactorUnit == 20

\* One pixel in limb l2: FactorUnit^2 * MeanUnit = PixelLimb * Limb^2.
PixelLimb == FactorUnit * FactorUnit * (MeanUnit \div (Limb * Limb))

\* Defaults of the keyword arguments.
crop_size_default == 512
face_factor_default == 13
landmark_factor_default == 7
order_default == 3

\* The module-level default mean shape as the import leaves it.
DEFAULT_MEAN_LANDMARKS ==
    << <<-93823628, -102696962>>,
       <<91500406, -106347822>>,
       <<-998336, 12252290>>,
       <<-81233852, 93652178>>,
       <<85553746, 90888026>> >>

\* x * k + mv pixels, for a mean coordinate x and a scale of k / FactorUnit^2.
scale_add(x, k, mv) ==
    LET xl == x % Limb
        xh == x \div Limb
        p0 == xl * k
        p1 == xh * k + (p0 \div Limb)
    IN  << mv * PixelLimb + (p1 \div Limb), p1 % Limb, p0 % Limb >>

\* The sum of two target coordinates.
fix_add(a, b) ==
    LET s0 == a[3] + b[3]
        s1 == a[2] + b[2] + (s0 \div Limb)
    IN  << a[1] + b[1] + (s1 \div Limb), s1 % Limb, s0 % Limb >>

\* A whole number of pixels as a target coordinate.
fix_pixels(n) == << n * PixelLimb, 0, 0 >>

\* ------------------------------------------------------------ vocabulary

ALIGN_TYPES == {"affine", "similarity"}

\* The modes numpy.pad accepts among those the model draws.
NP_PAD_MODES == {"constant", "edge", "symmetric", "reflect", "wrap"}

\* cv2's interpolation flags, by what each kernel is.
inter ==
    [o \in 0..5 |->
        CASE o = 0 -> "INTER_NEAREST"
          [] o = 1 -> "INTER_LINEAR"
          [] o = 2 -> "INTER_AREA"
          [] o = 3 -> "INTER_CUBIC"
          [] OTHER -> "INTER_LANCZOS4"]

\* cv2's border flags.
border ==
    [m \in NP_PAD_MODES |->
        CASE m = "constant" -> "BORDER_CONSTANT"
          [] m = "edge" -> "BORDER_REPLICATE"
          [] m = "symmetric" -> "BORDER_REFLECT"
          [] m = "reflect" -> "BORDER_REFLECT101"
          [] OTHER -> "BORDER_WRAP"]

\* The kernel a cv2 interpolation flag selects.
cv2_kernel(flag) ==
    CASE flag = "INTER_NEAREST" -> "nearest"
      [] flag = "INTER_LINEAR" -> "linear"
      [] flag = "INTER_AREA" -> "area"
      [] flag = "INTER_CUBIC" -> "cubic"
      [] OTHER -> "lanczos4"

\* The fill policy a cv2 border flag selects, in numpy.pad's words.
cv2_fill(flag) ==
    CASE flag = "BORDER_CONSTANT" -> "constant"
      [] flag = "BORDER_REPLICATE" -> "edge"
      [] flag = "BORDER_REFLECT" -> "symmetric"
      [] flag = "BORDER_REFLECT101" -> "reflect"
      [] OTHER -> "wrap"

\* The kernel skimage's warp uses for a spline order.
skimage_kernel(o) ==
    CASE o = 0 -> "nearest"
      [] o = 1 -> "linear"
      [] o = 2 -> "quadratic"
      [] o = 3 -> "cubic"
      [] o = 4 -> "quartic"
      [] OTHER -> "quintic"

\* ------------------------------------------------------------ the pipeline

\* The locals of a call that has not run yet, with the caller's two arrays.
no_tform == [state |-> "unset", family |-> "none", from |-> <<>>, to |-> <<>>]

start(img, src_landmarks, mean_landmarks) ==
    [status |-> "running", error |-> "none", at |-> "none",
     v_half |-> 0, w_half |-> 0, shape |-> <<img.h, img.w>>,
     src_landmarks |-> src_landmarks, mean_landmarks |-> mean_landmarks,
     move |-> <<>>, trg |-> <<>>, tform |-> no_tform, output_shape |-> <<>>,
     resampler |-> "not called", kernel |-> "none", fill |-> "none",
     crop |-> [rows |-> 0, cols |-> 0]]

raise(r, error, at) == [r EXCEPT !.status = "raised", !.error = error, !.at = at]

\* assert align_type in ['affine', 'similarity']
check_align_type(r, cfg) ==
    IF cfg.align_type \in ALIGN_TYPES THEN r
    ELSE raise(r, "AssertionError", "assert")

\* move = np.array([img.shape[1] // 2, img.shape[0] // 2])
move_init(r, img) ==
    IF r.status # "running" THEN r
    ELSE [r EXCEPT !.move = <<img.w \div 2, img.h \div 2>>]

\* if v_border < 0 / if w_border < 0
needs_pad(b) == b < 0

\* A half deficit rounded up once too often: (-v_border + 2) // 2.
half_deficit_plus_one(b) == (-b + 2) \div 2

\* (-v_border + 1) // 2
half_deficit(b) == (-b + 1) \div 2

\* np.pad with one pad pair per axis of a three-axis image: numpy raises
\* ValueError for an image of another rank and for a mode it does not know.
np_pad_ok(img, cfg) == img.ndim = 3 /\ cfg.mode \in NP_PAD_MODES

\* += np.array([0, v_half]) on a list of points.
shift_v(pts, v_half) == [i \in DOMAIN pts |-> <<pts[i][1], pts[i][2] + v_half>>]

\* The column shift added to the row coordinate: += np.array([0, w_half]).
shift_w_rows(pts, w_half) == [i \in DOMAIN pts |-> <<pts[i][1], pts[i][2] + w_half>>]

\* += np.array([w_half, 0]) on a list of points.
shift_w(pts, w_half) == [i \in DOMAIN pts |-> <<pts[i][1] + w_half, pts[i][2]>>]

\* The rows: pad above and below, shift the landmarks and move down.
pad_v(r, img, cfg) ==
    LET v_border == img.h - cfg.crop_size
        v_half == half_deficit(v_border)
    IN  IF r.status # "running" \/ ~needs_pad(v_border) THEN r
        ELSE IF ~np_pad_ok(img, cfg) THEN raise(r, "ValueError", "pad")
        ELSE [r EXCEPT !.v_half = v_half,
                       !.shape = <<@[1] + 2 * v_half, @[2]>>,
                       !.src_landmarks = shift_v(@, v_half),
                       !.move = <<@[1], @[2] + v_half>>]

\* The columns: pad left and right, shift the landmarks and move right.
pad_w(r, img, cfg) ==
    LET w_border == img.w - cfg.crop_size
        w_half == half_deficit(w_border)
    IN  IF r.status # "running" \/ ~needs_pad(w_border) THEN r
        ELSE IF ~np_pad_ok(img, cfg) THEN raise(r, "ValueError", "pad")
        ELSE [r EXCEPT !.w_half = w_half,
                       !.shape = <<@[1], @[2] + 2 * w_half>>,
                       !.src_landmarks = shift_w(@, w_half),
                       !.move = <<@[1] + w_half, @[2]>>]

\* The midpoint of the two eyes, points 0 and 1 of the code.
eye_mid(m) == << (m[1][1] + m[2][1]) \div 2, (m[1][2] + m[2][2]) \div 2 >>

\* The sum of the eyes subtracted, not their midpoint: the / 2.0 left out.
normalize_no_halving(m) ==
    [i \in DOMAIN m |-> <<m[i][1] - (m[1][1] + m[2][1]), m[i][2] - (m[1][2] + m[2][2])>>]

\* The left eye subtracted, not the midpoint of the eyes.
normalize_by_left_eye(m) ==
    [i \in DOMAIN m |-> <<m[i][1] - m[1][1], m[i][2] - m[1][2]>>]

\* mean_landmarks -= (mean_landmarks[0] + mean_landmarks[1]) / 2.0
normalize(m) ==
    [i \in DOMAIN m |-> <<m[i][1] - eye_mid(m)[1], m[i][2] - eye_mid(m)[2]>>]

\* mean_landmarks * (crop_size * face_factor * landmark_factor) + move
trg_landmarks(m, cfg, move) ==
    LET k == cfg.crop_size * cfg.face_factor * cfg.landmark_factor
    IN  [i \in DOMAIN m |->
            <<scale_add(m[i][1], k, move[1]), scale_add(m[i][2], k, move[2])>>]

\* Both statements of "estimate transform matrix": the mean shape is
\* normalized in place, then projected.
project(r, cfg) ==
    IF r.status # "running" THEN r
    ELSE [r EXCEPT !.mean_landmarks = normalize(@),
                   !.trg = trg_landmarks(normalize(r.mean_landmarks), cfg, r.move)]

\* Points that all lie on one line through the first (or coincide), for a
\* list of at least one integer point.
collinear(pts) ==
    \A j, k \in DOMAIN pts :
        (pts[j][1] - pts[1][1]) * (pts[k][2] - pts[1][2])
            = (pts[k][1] - pts[1][1]) * (pts[j][2] - pts[1][2])

\* Points that all coincide.
coincide(pts) == \A i, j \in DOMAIN pts : pts[i] = pts[j]

\* What an estimator does with the correspondences (from, to).  It is a
\* collaborator: it rejects two lists of different lengths ("error"), and it
\* yields no matrix (cv2 returns None, skimage a transform of undefined
\* parameters) for correspondences it cannot fit, taken here to be target
\* points that coincide or source points on one line; otherwise a matrix,
\* named by the family and the two lists.
estimator(family, from, to) ==
    IF Len(from) # Len(to) THEN [no_tform EXCEPT !.state = "error"]
    ELSE [state |-> IF coincide(from) \/ collinear(to) THEN "none" ELSE "matrix",
          family |-> family, from |-> from, to |-> to]

\* cv2.estimateAffine2D(trg, src)[0] or cv2.estimateAffinePartial2D(trg, src)[0]
opencv_estimate(r, cfg) ==
    LET tform == estimator(IF cfg.align_type = "affine" THEN "affine"
                           ELSE "similarity", r.trg, r.src_landmarks)
    IN  IF r.status # "running" THEN r
        ELSE IF tform.state = "error" THEN raise(r, "cv2.error", "estimate")
        ELSE [r EXCEPT !.tform = tform]

\* The family fixed: transform.estimate_transform('similarity', trg, src).
skimage_estimate_similarity_only(r, cfg) ==
    LET tform == estimator("similarity", r.trg, r.src_landmarks)
    IN  IF r.status # "running" THEN r
        ELSE IF tform.state = "error" THEN raise(r, "ValueError", "estimate")
        ELSE [r EXCEPT !.tform = tform]

\* transform.estimate_transform(align_type, trg, src)
skimage_estimate(r, cfg) ==
    LET tform == estimator(cfg.align_type, r.trg, r.src_landmarks)
    IN  IF r.status # "running" THEN r
        ELSE IF tform.state = "error" THEN raise(r, "ValueError", "estimate")
        ELSE [r EXCEPT !.tform = tform]

\* The canvas without its last row and column: the + 1 left out.
output_shape_no_margin(cfg, move) ==
    << cfg.crop_size \div 2 + move[2], cfg.crop_size \div 2 + move[1] >>

\* (crop_size // 2 + move[1] + 1, crop_size // 2 + move[0] + 1)
output_shape(cfg, move) ==
    << cfg.crop_size \div 2 + move[2] + 1, cfg.crop_size \div 2 + move[1] + 1 >>

\* cv2.warpAffine(img, tform, output_shape[::-1], flags=WARP_INVERSE_MAP +
\* inter[order], borderMode=border[mode]): the two dictionary lookups come
\* before the call; cv2 rejects a missing matrix.
opencv_warp(r, cfg) ==
    IF r.status # "running" THEN r
    ELSE LET s == [r EXCEPT !.output_shape = output_shape(cfg, r.move)]
         IN  IF cfg.order \notin DOMAIN inter THEN raise(s, "KeyError", "warp")
             ELSE IF cfg.mode \notin DOMAIN border THEN raise(s, "KeyError", "warp")
             ELSE LET t == [s EXCEPT !.resampler = "called",
                                     !.kernel = cv2_kernel(inter[cfg.order]),
                                     !.fill = cv2_fill(border[cfg.mode])]
                  IN  IF t.tform.state = "none" THEN raise(t, "cv2.error", "warp")
                      ELSE t

\* transform.warp(img, tform, output_shape=output_shape, order=order,
\* mode=mode): warp checks the order and the mode itself; a transform of
\* undefined parameters is resampled like any other.
skimage_warp(r, cfg) ==
    IF r.status # "running" THEN r
    ELSE LET s == [r EXCEPT !.output_shape = output_shape(cfg, r.move),
                            !.resampler = "called"]
         IN  IF cfg.order \notin 0..5 THEN raise(s, "ValueError", "warp")
             ELSE IF cfg.mode \notin NP_PAD_MODES THEN raise(s, "ValueError", "warp")
             ELSE [s EXCEPT !.kernel = skimage_kernel(cfg.order),
                            !.fill = cfg.mode]

\* len(a[-c:]) for a list a of n items.
slice_len(n, c) ==
    IF c > 0 THEN (IF c < n THEN c ELSE n)
    ELSE IF c = 0 THEN n
    ELSE (IF -c < n THEN n + c ELSE 0)

\* img_crop = img_align[-crop_size:, -crop_size:]; return img_crop
crop(r, img, cfg) ==
    IF r.status # "running" THEN r
    ELSE [r EXCEPT !.status = "returned",
                   !.crop = [rows |-> slice_len(r.output_shape[1], cfg.crop_size),
                             cols |-> slice_len(r.output_shape[2], cfg.crop_size),
                             image |-> img, pad |-> <<r.v_half, r.w_half>>,
                             pad_mode |-> cfg.mode, tform |-> r.tform,
                             output_shape |-> r.output_shape,
                             kernel |-> r.kernel, fill |-> r.fill]]

\* The lines the two entry points share, from the assertion to trg_landmarks.
prepare(img, src_landmarks, mean_landmarks, cfg) ==
    project(pad_w(pad_v(move_init(check_align_type(
        start(img, src_landmarks, mean_landmarks), cfg), img), img, cfg),
        img, cfg), cfg)

align_crop_5pts_opencv(img, src_landmarks, mean_landmarks, cfg) ==
    crop(opencv_warp(opencv_estimate(
        prepare(img, src_landmarks, mean_landmarks, cfg), cfg), cfg), img, cfg)

align_crop_5pts_skimage(img, src_landmarks, mean_landmarks, cfg) ==
    crop(skimage_warp(skimage_estimate(
        prepare(img, src_landmarks, mean_landmarks, cfg), cfg), cfg), img, cfg)

align_and_crop(fn, img, src_landmarks, mean_landmarks, cfg) ==
    IF fn = "opencv"
    THEN align_crop_5pts_opencv(img, src_landmarks, mean_landmarks, cfg)
    ELSE align_crop_5pts_skimage(img, src_landmarks, mean_landmarks, cfg)

\* ---------------------------------------------------------------- inputs

\* Images: every height and width up to MaxDim, with and without a channel
\* axis, and the 256 x 256 image of the scenario.
Images == [h : 1..MaxDim, w : 1..MaxDim, ndim : {2, 3}]

ScenarioImages == [h : {256}, w : {256}, ndim : {2, 3}]

\* The keyword defaults, for a crop_size.
default_cfg(c) ==
    [crop_size |-> c, face_factor |-> face_factor_default,
     landmark_factor |-> landmark_factor_default,
     align_type |-> "similarity", order |-> order_default, mode |-> "edge"]

\* The defaults with one argument changed; "projective", order 6 and mode
\* "nearest" are values the docstrings exclude.
Configs(c) ==
    {default_cfg(c)}
        \cup {[default_cfg(c) EXCEPT !.align_type = a] : a \in {"affine", "projective"}}
        \cup {[default_cfg(c) EXCEPT !.order = o] : o \in 0..6}
        \cup {[default_cfg(c) EXCEPT !.mode = m] : m \in NP_PAD_MODES \cup {"nearest"}}
        \cup {[default_cfg(c) EXCEPT !.face_factor = FactorUnit,
                                     !.landmark_factor = FactorUnit]}

Inputs ==
    (Images \X UNION {Configs(c) : c \in 0..MaxCrop})
        \cup (ScenarioImages \X {default_cfg(crop_size_default)})

\* The source-landmark arrays a caller makes: five points in general
\* position, five points on one line, and an array of four rows.
SrcArrays ==
    { << <<1, 1>>, <<3, 1>>, <<2, 2>>, <<1, 3>>, <<3, 3>> >>,
      << <<0, 0>>, <<1, 1>>, <<2, 2>>, <<3, 3>>, <<4, 4>> >>,
      << <<1, 1>>, <<3, 1>>, <<2, 2>>, <<1, 3>> >> }

\* The mean shapes a caller makes: one whose eye midpoint is the origin
\* (-0.3, 0), (0.3, 0), ... and one in [0, 1] (0.2, 0.3), (0.8, 0.3), ...
MeanArrays ==
    { << <<-60000000, 0>>, <<60000000, 0>>, <<0, 40000000>>,
         <<-40000000, 100000000>>, <<40000000, 100000000>> >>,
      << <<40000000, 60000000>>, <<160000000, 60000000>>, <<100000000, 100000000>>,
         <<60000000, 160000000>>, <<140000000, 160000000>> >> }

\* ----------------------------------------------------------------- state

VARIABLES
    default_mean,   \* the contents of the module-level _DEFAULT_MEAN_LANDMARKS
    caller_src,     \* the contents of the caller's source-landmark array
    caller_mean,    \* the contents of the caller's mean-shape array, if it has one
    call,           \* the last call: its arguments, the arrays before, its locals
    first           \* the first call of the run of identical calls in progress

vars == <<default_mean, caller_src, caller_mean, call, first>>

no_call == [n |-> 0]

Init ==
    /\ default_mean = DEFAULT_MEAN_LANDMARKS
    /\ caller_src = <<>>
    /\ caller_mean = <<>>
    /\ call = no_call
    /\ first = no_call

\* One call of an entry point on the caller's image and arrays src and mean
\* (mean is the default when the caller passes none).  The arrays are passed
\* by reference: what the call leaves in them is what the caller (or, for
\* the default, the module) holds afterwards, also when the call raises.
Invoke(fn, img, cfg, use_default, src, mean) ==
    LET mean_in == IF use_default THEN default_mean ELSE mean
        res == align_and_crop(fn, img, src, mean_in, cfg)
        this == [n |-> call.n + 1, fn |-> fn, img |-> img, cfg |-> cfg,
                 use_default |-> use_default, src_before |-> src,
                 mean_before |-> mean_in, res |-> res]
    IN  /\ call' = this
        /\ caller_src' = call'.res.src_landmarks
        /\ default_mean' = IF use_default THEN call'.res.mean_landmarks ELSE default_mean
        /\ caller_mean' = IF use_default THEN mean ELSE call'.res.mean_landmarks
        /\ first' = IF call.n = 0 THEN call' ELSE first

\* A first call: the caller makes its arrays and calls with any arguments.
FirstCall(fn) ==
    /\ call.n = 0
    /\ \E in \in Inputs, src \in SrcArrays, mean \in MeanArrays \cup {<<>>} :
           Invoke(fn, in[1], in[2], mean = <<>>, src, mean)

\* The same call again: the same image, the same two arrays as the last
\* call left them, the same configuration.
SameCall(fn) ==
    /\ call.n \in 1..(MaxCalls - 1)
    /\ call.fn = fn
    /\ Invoke(fn, call.img, call.cfg, call.use_default, caller_src, caller_mean)

\* The caller calls align_crop_5pts_opencv.
CallOpencv == FirstCall("opencv") \/ SameCall("opencv")

\* The caller calls align_crop_5pts_skimage.
CallSkimage == FirstCall("skimage") \/ SameCall("skimage")

\* The caller ends the run and drops its arrays; the module-level default
\* stays as the calls left it.
EndRun ==
    /\ call.n > 0
    /\ caller_src' = <<>>
    /\ caller_mean' = <<>>
    /\ call' = no_call
    /\ first' = no_call
    /\ UNCHANGED default_mean

Next == CallOpencv \/ CallSkimage \/ EndRun

Spec == Init /\ [][Next]_vars

\* ---------------------------------------------------------------- claims

\* A call has been made and its record is in call.
Called == call.n > 0

\* The documented preconditions hold of the last call's arguments.
ValidArgs ==
    /\ Len(call.src_before) = 5
    /\ call.cfg.align_type \in ALIGN_TYPES
    /\ call.cfg.mode \in NP_PAD_MODES
    /\ call.cfg.order \in 0..5
    /\ call.cfg.crop_size > 0

\* The last call's source landmarks are five points not on one line.
GeneralPosition == Len(call.src_before) = 5 /\ ~collinear(call.src_before)

\* The last call's image is at least crop_size high / wide.
HighEnough == call.img.h >= call.cfg.crop_size
WideEnough == call.img.w >= call.cfg.crop_size

\* C1: for every positive crop_size and every image, with or without a
\* channel axis, whose height and width are each smaller than, equal to or
\* larger than crop_size, the call returns an image of exactly crop_size rows
\* and crop_size columns.
C1_OutputShape ==
    (Called /\ ValidArgs /\ GeneralPosition) =>
        /\ call.res.status = "returned"
        /\ call.res.crop.rows = call.cfg.crop_size
        /\ call.res.crop.cols = call.cfg.crop_size

\* The same for images that have a channel axis.
ThreeAxesOutputShape ==
    (Called /\ ValidArgs /\ GeneralPosition /\ call.img.ndim = 3) =>
        /\ call.res.status = "returned"
        /\ call.res.crop.rows = call.cfg.crop_size
        /\ call.res.crop.cols = call.cfg.crop_size

\* C2 as stated: a call repeated with the same image, the same two arrays and
\* the same configuration returns what the first call returned, whether or
\* not the image had to be padded.
C2_RepeatSameOutput ==
    (call.n >= 2 /\ first.res.status = "returned") =>
        /\ call.res.status = "returned"
        /\ call.res.crop = first.res.crop

\* The eye midpoint of a mean shape is exactly the origin.
Centred(m) == m[1][1] + m[2][1] = 0 /\ m[1][2] + m[2][2] = 0

\* C2 as amended: the repeated call returns what the first call returned
\* when the image is at least crop_size in both axes and the mean shape is
\* the default or one whose eye midpoint is the origin, and the source
\* landmarks are then the ones the first call was given; when an axis was
\* padded the repeated call is given source landmarks that every call before
\* it has shifted by the pad.
C2_RepeatSameOutputUnpadded ==
    (call.n >= 2 /\ first.res.status = "returned") =>
        /\ (/\ HighEnough
            /\ WideEnough
            /\ call.use_default \/ Centred(first.mean_before))
               => /\ call.res.status = "returned"
                  /\ call.res.crop = first.res.crop
                  /\ call.src_before = first.src_before
        /\ (~HighEnough \/ ~WideEnough)
               => /\ call.src_before # first.src_before
                  /\ \A i \in DOMAIN call.src_before :
                         call.src_before[i] =
                             << first.src_before[i][1] + (call.n - 1) * first.res.w_half,
                                first.src_before[i][2] + (call.n - 1) * first.res.v_half >>

\* A second call of a run on an image that needs no padding, the first of
\* which normalized the default mean shape.
C2_Witness ==
    /\ call.n >= 2
    /\ HighEnough /\ WideEnough
    /\ call.use_default
    /\ first.mean_before = DEFAULT_MEAN_LANDMARKS
    /\ first.res.status = "returned"
    /\ call.res.status = "returned"

\* C3: a call whose arguments violate a precondition is rejected before any
\* computation: it raises, the image has not been padded, and the caller's
\* source_landmarks and mean_landmarks arrays are as they were.
C3_EagerRejection ==
    (Called /\ ~ValidArgs) =>
        /\ call.res.status = "raised"
        /\ call.res.v_half = 0 /\ call.res.w_half = 0
        /\ call.res.src_landmarks = call.src_before
        /\ call.res.mean_landmarks = call.mean_before

\* C4: when the estimator yields no transform for otherwise valid arguments
\* the call fails with DegenerateLandmarksError and the resampler is never
\* handed the missing transform.
C4_DegenerateRejected ==
    (Called /\ ValidArgs /\ call.res.tform.state = "none") =>
        /\ call.res.status = "raised"
        /\ call.res.error = "DegenerateLandmarksError"
        /\ call.res.resampler = "not called"

\* C5: an axis whose image extent is at least crop_size is not padded, its
\* component of move stays extent // 2, and that coordinate of every source
\* landmark is left as it was; with both axes at least crop_size nothing is
\* padded and the caller's source_landmarks are unchanged.
C5_NoPadding ==
    Called =>
        /\ HighEnough =>
              /\ call.res.v_half = 0
              /\ call.res.shape[1] = call.img.h
              /\ call.res.move # <<>> => call.res.move[2] = call.img.h \div 2
              /\ \A i \in DOMAIN call.src_before :
                     call.res.src_landmarks[i][2] = call.src_before[i][2]
        /\ WideEnough =>
              /\ call.res.w_half = 0
              /\ call.res.shape[2] = call.img.w
              /\ call.res.move # <<>> => call.res.move[1] = call.img.w \div 2
              /\ \A i \in DOMAIN call.src_before :
                     call.res.src_landmarks[i][1] = call.src_before[i][1]
        /\ (HighEnough /\ WideEnough) =>
              /\ call.res.shape = <<call.img.h, call.img.w>>
              /\ call.res.src_landmarks = call.src_before
              /\ caller_src = call.src_before

\* A call that returned after padding the columns only.
C5_Witness ==
    /\ Called
    /\ HighEnough /\ ~WideEnough
    /\ call.res.w_half > 0
    /\ call.res.status = "returned"

\* The padding of one axis of extent d by the last call: pad, padded extent,
\* move component and landmark coordinate k.
PaddedBy(d, half, extent, k) ==
    LET c == call.cfg.crop_size
    IN  /\ half = (c - d + 1) \div 2
        /\ 2 * half >= c - d /\ 2 * half <= c - d + 1
        /\ extent = d + 2 * half
        /\ extent >= c /\ extent <= c + 1
        /\ call.res.move[k] = d \div 2 + half
        /\ \A i \in DOMAIN call.src_before :
               call.res.src_landmarks[i][k] = call.src_before[i][k] + half

\* C6: each axis whose image extent d is smaller than crop_size c is padded
\* on both sides by (c - d + 1) // 2, to an extent of at least c and at most
\* c + 1, and that coordinate of all five source landmarks and that component
\* of move are each increased by exactly that amount.
C6_PadAmount ==
    (Called /\ ValidArgs) =>
        /\ ~HighEnough => PaddedBy(call.img.h, call.res.v_half, call.res.shape[1], 2)
        /\ ~WideEnough => PaddedBy(call.img.w, call.res.w_half, call.res.shape[2], 1)

\* The same for images that have a channel axis.
ThreeAxesPadAmount ==
    (Called /\ ValidArgs /\ call.img.ndim = 3) =>
        /\ ~HighEnough => PaddedBy(call.img.h, call.res.v_half, call.res.shape[1], 2)
        /\ ~WideEnough => PaddedBy(call.img.w, call.res.w_half, call.res.shape[2], 1)

\* The last call is the scenario's: a 256 x 256 image, crop_size 512, the
\* default factors, landmarks in general position.
Scenario ==
    /\ Called
    /\ call.img.h = 256 /\ call.img.w = 256
    /\ call.cfg = default_cfg(crop_size_default)
    /\ GeneralPosition

\* The last call padded both axes by half per side and returned a crop of
\* crop_size_default rows and columns cut from a canvas of crop_size // 2 +
\* move + 1 rows and columns.
ScenarioNumbers(half) ==
    /\ call.res.v_half = half /\ call.res.w_half = half
    /\ call.res.shape = <<256 + 2 * half, 256 + 2 * half>>
    /\ call.res.move = <<128 + half, 128 + half>>
    /\ call.res.output_shape = <<crop_size_default \div 2 + call.res.move[2] + 1,
                                 crop_size_default \div 2 + call.res.move[1] + 1>>
    /\ call.res.status = "returned"
    /\ call.res.crop.rows = crop_size_default
    /\ call.res.crop.cols = crop_size_default

\* C7 as stated: for a 256 x 256 image with crop_size 512 and the default
\* factors both axes are padded by 129 per side, the canvas is 512 // 2 +
\* move + 1 high and wide for the padded move, and the output is 512 x 512.
C7_Scenario == Scenario => ScenarioNumbers(129)

\* C7 as amended: for a 256 x 256 image that has a channel axis the pad is
\* (512 - 256 + 1) // 2 = 128 per side, the padded image is 512 x 512, move
\* is 256, the canvas is 512 // 2 + 256 + 1 = 513 high and wide, and the
\* output is 512 x 512.
C7_ScenarioThreeAxes ==
    (Scenario /\ call.img.ndim = 3) =>
        /\ ScenarioNumbers(128)
        /\ call.res.output_shape = <<513, 513>>

\* The scenario's call on an image with a channel axis has returned.
C7_Witness ==
    /\ Scenario
    /\ call.img.ndim = 3
    /\ call.res.v_half > 0 /\ call.res.w_half > 0
    /\ call.res.status = "returned"

\* What each entry point does with the last call's arguments and arrays as
\* they were before it.
OnOpencv ==
    align_crop_5pts_opencv(call.img, call.src_before, call.mean_before, call.cfg)

OnSkimage ==
    align_crop_5pts_skimage(call.img, call.src_before, call.mean_before, call.cfg)

\* Two runs agree on the pads, the padded extent, move, the arrays they leave
\* to the caller, the target landmarks, the estimator's family and its
\* (target, source) arguments, and the canvas.
SameGeometry(a, b) ==
    /\ a.v_half = b.v_half /\ a.w_half = b.w_half /\ a.shape = b.shape
    /\ a.move = b.move
    /\ a.src_landmarks = b.src_landmarks
    /\ a.mean_landmarks = b.mean_landmarks
    /\ a.trg = b.trg
    /\ a.tform = b.tform
    /\ a.output_shape = b.output_shape

\* Two runs that returned agree on the crop window and the fill policy.
SameWindowAndFill(a, b) ==
    /\ a.crop.rows = b.crop.rows /\ a.crop.cols = b.crop.cols
    /\ a.crop.pad = b.crop.pad /\ a.crop.pad_mode = b.crop.pad_mode
    /\ a.fill = b.fill

\* C8 as stated: on the same inputs the two entry points agree on the
\* geometry, on the in-place changes, on the estimator's arguments, and on
\* the kernel and fill policy of every interpolation order and border mode,
\* orders 4 and 5 being one kernel.
C8_EntryPointsIdentical ==
    Called =>
        \A a \in {OnOpencv}, b \in {OnSkimage} :
            /\ SameGeometry(a, b)
            /\ (a.status = "returned" /\ b.status = "returned") =>
                  /\ SameWindowAndFill(a, b)
                  /\ a.kernel = b.kernel
            /\ cv2_kernel(inter[4]) = cv2_kernel(inter[5])
            /\ skimage_kernel(4) = skimage_kernel(5)

\* C8 as amended: the two entry points agree on the geometry, on the
\* in-place changes, on the estimator's arguments and on the fill policy of
\* every border mode; they use the same kind of kernel for orders 0, 1 and 3
\* and different ones for orders 2, 4 and 5, which are area-weighted,
\* Lanczos and Lanczos in the opencv entry point and the quadratic, quartic
\* and quintic splines in the skimage one.
C8_EntryPointsAgreeButKernels ==
    Called =>
        \A a \in {OnOpencv}, b \in {OnSkimage} :
            /\ SameGeometry(a, b)
            /\ (a.status = "returned" /\ b.status = "returned") =>
                  /\ SameWindowAndFill(a, b)
                  /\ call.cfg.order \in {0, 1, 3} => a.kernel = b.kernel
                  /\ call.cfg.order \in {2, 4, 5} => a.kernel # b.kernel
            /\ cv2_kernel(inter[4]) = cv2_kernel(inter[5])
            /\ skimage_kernel(4) # skimage_kernel(5)

\* A call that padded both axes and on whose inputs both entry points return.
C8_Witness ==
    /\ Called
    /\ call.res.v_half > 0 /\ call.res.w_half > 0
    /\ call.cfg.mode = "symmetric"
    /\ OnOpencv.status = "returned"
    /\ OnSkimage.status = "returned"

\* C9: for crop_size >= 1 the canvas is at least crop_size high and wide, so
\* the crop window of the last crop_size rows and columns starts at a
\* non-negative index, and the midpoint of the two projected eyes falls at
\* index crop_size - crop_size // 2 - 1 of the crop on both axes.
C9_CropAnchor ==
    (Called /\ call.cfg.crop_size >= 1 /\ call.res.output_shape # <<>>) =>
        LET c == call.cfg.crop_size
            canvas == call.res.output_shape
            trg == call.res.trg
            anchor == c - c \div 2 - 1
        IN  /\ canvas[1] >= c /\ canvas[2] >= c
            /\ anchor >= 0 /\ anchor < c
            /\ fix_add(trg[1][1], trg[2][1]) = fix_pixels(2 * (canvas[2] - c + anchor))
            /\ fix_add(trg[1][2], trg[2][2]) = fix_pixels(2 * (canvas[1] - c + anchor))
            /\ call.res.status = "returned" =>
                  call.res.crop.rows = c /\ call.res.crop.cols = c

\* A call that returned a crop after padding the rows but not the columns.
C9_Witness ==
    /\ Called
    /\ call.cfg.crop_size >= 1
    /\ ~HighEnough /\ WideEnough
    /\ call.res.v_half > 0
    /\ call.res.status = "returned"

\* The default mean shape is as imported or as one normalization leaves it;
\* after a call that used it and got as far as the target landmarks it is
\* the once-normalized shape, its eye midpoint is the origin, a call that
\* found it normalized left it as it was, and the target landmarks are those
\* of the once-normalized shape for the call's crop_size, factors and move.
DefaultNormalizedOnce ==
    /\ default_mean \in {DEFAULT_MEAN_LANDMARKS, normalize(DEFAULT_MEAN_LANDMARKS)}
    /\ (Called /\ call.use_default /\ call.res.trg # <<>>) =>
          /\ default_mean = normalize(DEFAULT_MEAN_LANDMARKS)
          /\ Centred(default_mean)
          /\ call.mean_before # DEFAULT_MEAN_LANDMARKS => default_mean = call.mean_before
          /\ call.res.trg = trg_landmarks(normalize(DEFAULT_MEAN_LANDMARKS),
                                          call.cfg, call.res.move)

\* C10: both entry points normalize the one module-level default in place;
\* once a call has normalized it its eye midpoint is the origin, no later
\* step changes it again, and every later call that uses it computes the
\* target landmarks a first call would.
C10_DefaultIdempotent ==
    /\ []DefaultNormalizedOnce
    /\ [][default_mean # DEFAULT_MEAN_LANDMARKS => default_mean' = default_mean]_vars

\* A second call of a run of the skimage entry point that found the default
\* already normalized and returned.
C10_Witness ==
    /\ call.n >= 2
    /\ call.fn = "skimage"
    /\ call.use_default
    /\ call.mean_before = normalize(DEFAULT_MEAN_LANDMARKS)
    /\ call.res.status = "returned"

=============================================================================
